---------------------------- MODULE Spec2Model ----------------------------
(***************************************************************************)
(* serde_array_query: a serde Deserializer over a multiset of string       *)
(* key/value pairs (src/src/lib.rs).                                       *)
(*                                                                         *)
(* The engine state is the Deserializer struct (key_values, in_map,        *)
(* in_sequence).  A decode is a chain of nested handler activations: the   *)
(* engine's handlers call the target type's visitor, which calls back into *)
(* the engine.  The activations that are suspended on such a call are kept *)
(* on an explicit stack; one action is one handler entry, or one handler's *)
(* continuation after the call it was suspended on has returned.           *)
(*                                                                         *)
(* Strings are sequences of one-character strings, so that the BTreeMap's  *)
(* lexicographic key order and str::parse can be computed.                 *)
(***************************************************************************)
EXTENDS Integers, Sequences, FiniteSets, TLC

VARIABLES
    input,        \* the Vec<(String, String)> handed to from_key_values
    target,       \* the type T of from_key_values::<T>
    key_values,   \* Deserializer.key_values : BTreeMap<String, VecDeque<String>>
    in_map,       \* Deserializer.in_map
    in_sequence,  \* Deserializer.in_sequence
    stack,        \* suspended handler activations, innermost last
    pc,           \* what happens next: "call", "visit_map", "visit_value",
                  \* "visit_seq", "return" or "done"
    arg,          \* pc = "call": the type whose Deserialize impl is invoked
    ret           \* pc = "return": the Result being returned to the top frame
                  \* pc = "done": the Result of from_key_values

vars == <<input, target, key_values, in_map, in_sequence, stack, pc, arg, ret>>

-----------------------------------------------------------------------------
(* Bounds of the model *)

MaxPairs == 3

\* Deepest nesting of handler activations a hand-written visitor is followed to
MaxDepth == 4

\* Most elements a Vec's visitor is followed to: one more than any key has values
MaxElems == MaxPairs + 1

-----------------------------------------------------------------------------
(* Strings *)

Str_a  == <<"a">>
Str_ab == <<"a", "b">>
Str_b  == <<"b">>
Str_12 == <<"1", "2">>

KeyStrings   == {Str_a, Str_ab, Str_b}
ValueStrings == {Str_12, Str_a, Str_b}

Digits == <<"0", "1", "2", "3", "4", "5", "6", "7", "8", "9">>

\* Byte order of the characters used (ASCII: '+' < digits < letters).
CharOrd(c) ==
    CASE c = "+" -> 43
      [] c = "0" -> 48
      [] c = "1" -> 49
      [] c = "2" -> 50
      [] c = "a" -> 97
      [] c = "b" -> 98
      [] OTHER   -> 127

\* Ord for String: lexicographic on bytes, a proper prefix is smaller.
RECURSIVE StrLess(_, _)
StrLess(s, t) ==
    IF t = <<>> THEN FALSE
    ELSE IF s = <<>> THEN TRUE
    ELSE IF CharOrd(Head(s)) # CharOrd(Head(t)) THEN CharOrd(Head(s)) < CharOrd(Head(t))
    ELSE StrLess(Tail(s), Tail(t))

-----------------------------------------------------------------------------
(* Results and errors (src/src/error.rs) *)

Ok(v)  == [ok |-> TRUE, val |-> v]
Err(e) == [ok |-> FALSE, err |-> e]
NoRet  == [none |-> TRUE]

IsOk(r)  == "val" \in DOMAIN r
IsErr(r) == "err" \in DOMAIN r

Error(name) == [e |-> name, msg |-> ""]
RemoveKeyFailed(key) == [e |-> "RemoveKeyFailed", key |-> key]
\* de::Error::custom
custom(msg) == [e |-> "Message", msg |-> msg]

Fails(r, name) == IsErr(r) /\ r.err.e = name

-----------------------------------------------------------------------------
(* Target types, as the shapes their Deserialize impls request *)

StringT        == [kind |-> "string"]
U8T            == [kind |-> "u8"]
IgnoredAnyT    == [kind |-> "ignored_any"]
UnitT          == [kind |-> "unit"]
NoType         == [kind |-> "none"]
SeqT(t)        == [kind |-> "seq", elem |-> t]
OptionT(t)     == [kind |-> "option", inner |-> t]
\* variants: variant name -> "unit" | "newtype" | "tuple" | "struct"
EnumT(vs)      == [kind |-> "enum", variants |-> vs]
\* fields: field name -> type
StructT(fs)    == [kind |-> "struct", fields |-> fs]
\* Hand-written Deserialize impls and visitors (deserialize_with functions):
\* what they request, and in which order, is their own choice
CustomT        == [kind |-> "custom"]
CustomMapT     == [kind |-> "map"]
CustomSeqT     == [kind |-> "custom_seq"]
IdentifierT    == [kind |-> "identifier"]

\* Decoded values
StringV(s)  == [t |-> "string", v |-> s]
U8V(n)      == [t |-> "u8", v |-> n]
SeqV(xs)    == [t |-> "seq", v |-> xs]
SomeV(x)    == [t |-> "some", v |-> x]
NoneV       == [t |-> "none"]
VariantV(n) == [t |-> "variant", v |-> n]
StructV(f)  == [t |-> "struct", v |-> f]
IgnoredV    == [t |-> "ignored"]
CustomV     == [t |-> "custom"]

EnumUnit    == EnumT(Str_a :> "unit" @@ Str_b :> "unit")
EnumNewtype == EnumT(Str_a :> "unit" @@ Str_b :> "newtype")
EnumPayload == EnumT(Str_a :> "tuple" @@ Str_b :> "struct")

Inner == StructT(Str_b :> SeqT(StringT))

\* Records used as the element type of a top-level Vec
Row      == StructT(Str_a :> StringT @@ Str_b :> SeqT(StringT))
Optional == StructT(Str_a :> OptionT(StringT))

TargetTypes == {
    StringT,
    OptionT(StringT),
    SeqT(StringT),
    EnumUnit,
    StructT(Str_a :> SeqT(StringT) @@ Str_b :> U8T),
    StructT(Str_a :> StringT @@ Str_b :> U8T),
    StructT(Str_a :> OptionT(StringT) @@ Str_ab :> StringT @@ Str_b :> OptionT(U8T)),
    StructT(Str_a :> SeqT(EnumUnit) @@ Str_ab :> EnumNewtype @@ Str_b :> EnumPayload),
    StructT(Str_a :> SeqT(U8T) @@ Str_ab :> StringT),
    StructT(Str_a :> StringT @@ Str_b :> Inner),
    StructT(Str_ab :> SeqT(Inner)),
    StructT(Str_a :> U8T @@ Str_b :> SeqT(SeqT(StringT))),
    SeqT(Row),
    SeqT(Optional),
    UnitT
}

-----------------------------------------------------------------------------
(* The Value Store: Deserializer.key_values *)

EmptyMap == [k \in {} |-> <<>>]

\* Mutant of push_back: the value goes to the front of the key's queue
push_front(kv, k, v) ==
    IF k \in DOMAIN kv THEN [kv EXCEPT ![k] = <<v>> \o @]
    ELSE [x \in DOMAIN kv \cup {k} |-> IF x = k THEN <<v>> ELSE kv[x]]

\* key_values.entry(k).or_default().push_back(v)
push_back(kv, k, v) ==
    IF k \in DOMAIN kv THEN [kv EXCEPT ![k] = Append(@, v)]
    ELSE [x \in DOMAIN kv \cup {k} |-> IF x = k THEN <<v>> ELSE kv[x]]

\* Mutant of from_key_values_store: a key that comes back after another key
\* starts its queue afresh
RECURSIVE store_adjacent(_, _, _)
store_adjacent(kv, pairs, prev) ==
    IF pairs = <<>> THEN kv
    ELSE LET k == Head(pairs)[1]
             v == Head(pairs)[2]
         IN  store_adjacent(IF k = prev THEN push_back(kv, k, v)
                            ELSE [x \in DOMAIN kv \cup {k} |-> IF x = k THEN <<v>> ELSE kv[x]],
                            Tail(pairs), k)

from_key_values_store_adjacent(kv, pairs) == store_adjacent(kv, pairs, <<>>)

\* Deserializer::from_key_values: one pass over the input pairs
RECURSIVE from_key_values_store(_, _)
from_key_values_store(kv, pairs) ==
    IF pairs = <<>> THEN kv
    ELSE from_key_values_store(push_back(kv, Head(pairs)[1], Head(pairs)[2]), Tail(pairs))

\* Mutant of FirstKey: the last key of the iteration order
LastKey(kv) == CHOOSE k \in DOMAIN kv : \A x \in DOMAIN kv : x = k \/ StrLess(x, k)

\* BTreeMap iteration order: the first key
FirstKey(kv) == CHOOSE k \in DOMAIN kv : \A x \in DOMAIN kv : x = k \/ StrLess(k, x)

\* Mutant of remove: the key stays in the map
remove_nothing(kv, k) == kv

\* BTreeMap::remove
remove(kv, k) == [x \in DOMAIN kv \ {k} |-> kv[x]]

\* Mutant of current_key: the last key of the map instead of the first
current_key_last(kv) ==
    IF DOMAIN kv = {} THEN Err(Error("MissingKey")) ELSE Ok(LastKey(kv))

current_key(kv) ==
    IF DOMAIN kv = {} THEN Err(Error("MissingKey")) ELSE Ok(FirstKey(kv))

\* Ok carries the key whose queue current_values borrows
current_values(kv) ==
    IF DOMAIN kv = {} THEN Err(Error("MissingValues")) ELSE Ok(FirstKey(kv))

\* Mutant of next_unit: the key is removed with its first value
next_unit_drop_key(kv, inseq) ==
    LET cv == current_values(kv) IN
    IF IsErr(cv) THEN [res |-> cv, kv |-> kv, in_sequence |-> inseq]
    ELSE [res |-> Ok(Head(kv[cv.val])), kv |-> remove(kv, cv.val), in_sequence |-> FALSE]

\* Deserializer::next_unit: the Result, and the store and flag it leaves
next_unit(kv, inseq) ==
    LET cv == current_values(kv) IN
    IF IsErr(cv) THEN [res |-> cv, kv |-> kv, in_sequence |-> inseq]
    ELSE LET values == kv[cv.val] IN
         IF values = <<>>
         THEN [res |-> Err(Error("MissingValue")), kv |-> kv, in_sequence |-> inseq]
         ELSE LET value  == Head(values)
                  popped == [kv EXCEPT ![cv.val] = Tail(values)]
              IN  IF popped[cv.val] = <<>>
                  THEN LET key == current_key(popped) IN
                       IF IsErr(key)
                       THEN [res |-> key, kv |-> popped, in_sequence |-> inseq]
                       ELSE IF key.val \notin DOMAIN popped
                       THEN [res |-> Err(RemoveKeyFailed(key.val)), kv |-> popped,
                             in_sequence |-> inseq]
                       ELSE [res |-> Ok(value), kv |-> remove(popped, key.val),
                             in_sequence |-> FALSE]
                  ELSE [res |-> Ok(value), kv |-> popped, in_sequence |-> inseq]

-----------------------------------------------------------------------------
(* str::parse::<u8> *)

DigitValue(c) == CHOOSE d \in 0..9 : Digits[d + 1] = c
IsDigit(c)    == \E d \in 0..9 : Digits[d + 1] = c

RECURSIVE ParseDigits(_, _)
\* Ok(n), or Err on a non-digit or when the value leaves u8
ParseDigits(acc, s) ==
    IF s = <<>> THEN Ok(U8V(acc))
    ELSE IF ~IsDigit(Head(s)) THEN Err(custom("invalid digit found in string"))
    ELSE IF acc * 10 + DigitValue(Head(s)) > 255
         THEN Err(custom("number too large to fit in target type"))
    ELSE ParseDigits(acc * 10 + DigitValue(Head(s)), Tail(s))

\* Mutant of parse_u8: only the first character is read
parse_u8_first_digit(s) ==
    IF s = <<>> THEN Err(custom("cannot parse integer from empty string"))
    ELSE IF ~IsDigit(Head(s)) THEN Err(custom("invalid digit found in string"))
    ELSE Ok(U8V(DigitValue(Head(s))))

parse_u8(s) ==
    IF s = <<>> THEN Err(custom("cannot parse integer from empty string"))
    ELSE LET digits == IF Head(s) = "+" THEN Tail(s) ELSE s IN
         IF digits = <<>> THEN Err(custom("invalid digit found in string"))
         ELSE ParseDigits(0, digits)

-----------------------------------------------------------------------------
(* The call stack *)

Top       == stack[Len(stack)]
Popped    == SubSeq(stack, 1, Len(stack) - 1)
TopIs(h)  == stack # <<>> /\ Top.h = h

\* The field the struct visitor resolved: a declared field, or __Field::__ignore
KnownField(name) == [name |-> name, ignore |-> FALSE]
IgnoredField     == [name |-> <<>>, ignore |-> TRUE]

MapFrame(ty)  == [h |-> "deserialize_map", ty |-> ty, got |-> EmptyMap, field |-> IgnoredField]
\* start: the current key when the sequence began (not kept by the code; recorded
\* for the statements about the key a sequence reads)
SeqFrame(ty, start) == [h |-> "deserialize_seq", ty |-> ty, acc |-> <<>>, start |-> start]
OptionFrame   == [h |-> "deserialize_option"]
ValueFrame    == [h |-> "next_value_seed"]
ElementFrame  == [h |-> "next_element_seed"]

-----------------------------------------------------------------------------
(* The visitors of the target types (what serde's Deserialize impls do with *)
(* what the engine hands them)                                              *)

\* derive(Deserialize) on a struct, after next_key returned None: a field never
\* seen is None when it is an Option and a "missing field" error otherwise.
FinishStruct(ty, got) ==
    IF \E f \in DOMAIN ty.fields : f \notin DOMAIN got /\ ty.fields[f].kind # "option"
    THEN Err(custom("missing field"))
    ELSE Ok(StructV([f \in DOMAIN ty.fields |-> IF f \in DOMAIN got THEN got[f] ELSE NoneV]))

\* derive(Deserialize) field identifier visitor: visit_string(key)
ResolveField(ty, key) ==
    IF key \in DOMAIN ty.fields THEN KnownField(key) ELSE IgnoredField

\* EnumAccess::variant_seed: the variant identifier is resolved from the value text
variant_seed(variants, value) ==
    IF value \in DOMAIN variants THEN Ok(value) ELSE Err(custom("unknown variant"))

\* Mutant of UnitOnlyVariantAccess: a variant with a payload is accepted
AnyVariantAccess(shape) == Ok(NoneV)

\* UnitOnlyVariantAccess: unit_variant / newtype_variant_seed / tuple_variant /
\* struct_variant, by the payload shape the selected variant declares
UnitOnlyVariantAccess(shape) ==
    IF shape = "unit" THEN Ok(NoneV) ELSE Err(Error("ExpectedUnitVariant"))

\* visitor.visit_enum(EnumAccess(value)) for a derived enum
visit_enum(variants, value) ==
    LET variant == variant_seed(variants, value) IN
    IF IsErr(variant) THEN variant
    ELSE LET payload == UnitOnlyVariantAccess(variants[variant.val]) IN
         IF IsErr(payload) THEN payload ELSE Ok(VariantV(variant.val))

-----------------------------------------------------------------------------
(* Initial state: Deserializer::from_key_values(input), about to run        *)
(* T::deserialize(&mut deserializer)                                        *)

Pairs == KeyStrings \X ValueStrings

Inputs == UNION {[1..n -> Pairs] : n \in 0..MaxPairs}

Init ==
    /\ input \in Inputs
    /\ target \in TargetTypes
    /\ key_values = from_key_values_store(EmptyMap, input)
    /\ in_map = FALSE
    /\ in_sequence = FALSE
    /\ stack = <<>>
    /\ pc = "call"
    /\ arg = target
    /\ ret = NoRet

-----------------------------------------------------------------------------
(* Handlers that take one value: deserialize_string, forward_parsed_value,  *)
(* deserialize_enum, and the shapes forwarded to deserialize_any            *)

Calls(kind) == pc = "call" /\ arg.kind = kind

\* deserialize_struct and deserialize_map are one handler, whoever the visitor is
CallsMap == pc = "call" /\ arg.kind \in {"struct", "map"}
CallsSeq == pc = "call" /\ arg.kind \in {"seq", "custom_seq"}

\* The visitor running in the top frame is the derived one of a struct / Vec
DerivedVisitor(h) == TopIs(h) /\ Top.ty.kind \in {"struct", "seq"}

\* The handler returns res to its caller, leaving the store kv and the flag inseq
Returns(res, kv, inseq) ==
    /\ ret' = res
    /\ key_values' = kv
    /\ in_sequence' = inseq
    /\ pc' = "return"
    /\ arg' = NoType
    /\ UNCHANGED <<input, target, in_map, stack>>

deserialize_string ==
    /\ Calls("string")
    /\ LET value == next_unit(key_values, in_sequence) IN
       Returns(IF IsErr(value.res) THEN value.res ELSE Ok(StringV(value.res.val)),
               value.kv, value.in_sequence)

\* forward_to_deserialize_any! { ... ignored_any } -> deserialize_any -> deserialize_string
deserialize_ignored_any ==
    /\ Calls("ignored_any")
    /\ LET value == next_unit(key_values, in_sequence) IN
       Returns(IF IsErr(value.res) THEN value.res ELSE Ok(IgnoredV),
               value.kv, value.in_sequence)

\* forward_parsed_value! { u8 => deserialize_u8 }
deserialize_u8 ==
    /\ Calls("u8")
    /\ LET value == next_unit(key_values, in_sequence) IN
       Returns(IF IsErr(value.res) THEN value.res ELSE parse_u8(value.res.val),
               value.kv, value.in_sequence)

deserialize_enum ==
    /\ Calls("enum")
    /\ LET value == next_unit(key_values, in_sequence) IN
       Returns(IF IsErr(value.res) THEN value.res ELSE visit_enum(arg.variants, value.res.val),
               value.kv, value.in_sequence)

\* forward_to_deserialize_any! { ... unit ... } -> deserialize_any -> deserialize_string:
\* a value is popped and handed to the visitor of () as a string, which that
\* visitor does not accept (Visitor::visit_string's default: invalid type)
deserialize_unit ==
    /\ Calls("unit")
    /\ LET value == next_unit(key_values, in_sequence) IN
       Returns(IF IsErr(value.res) THEN value.res
               ELSE Err(custom("invalid type: string, expected unit")),
               value.kv, value.in_sequence)

-----------------------------------------------------------------------------
(* deserialize_option *)

\* Mutant of deserialize_option: the in_map guard is missing
deserialize_option_unguarded ==
    /\ Calls("option")
    /\ stack' = Append(stack, OptionFrame)
    /\ pc' = "call"
    /\ arg' = arg.inner
    /\ UNCHANGED <<input, target, key_values, in_map, in_sequence, ret>>

deserialize_option ==
    /\ Calls("option")
    /\ IF ~in_map
       THEN Returns(Err(Error("ForbiddenTopLevelOption")), key_values, in_sequence)
       ELSE /\ stack' = Append(stack, OptionFrame)
            /\ pc' = "call"
            /\ arg' = arg.inner
            /\ UNCHANGED <<input, target, key_values, in_map, in_sequence, ret>>

\* visit_some(self) returned: Option's visitor wraps the inner value in Some
deserialize_option_return ==
    /\ pc = "return"
    /\ TopIs("deserialize_option")
    /\ stack' = Popped
    /\ ret' = IF IsOk(ret) THEN Ok(SomeV(ret.val)) ELSE ret
    /\ UNCHANGED <<input, target, key_values, in_map, in_sequence, pc, arg>>

-----------------------------------------------------------------------------
(* deserialize_struct / deserialize_map and MapAccess *)

\* Mutant of deserialize_map: the in_map guard is missing
deserialize_map_unguarded ==
    /\ CallsMap
    /\ in_map' = TRUE
    /\ stack' = Append(stack, MapFrame(arg))
    /\ pc' = "visit_map"
    /\ arg' = NoType
    /\ UNCHANGED <<input, target, key_values, in_sequence, ret>>

deserialize_map ==
    /\ CallsMap
    /\ IF in_map
       THEN Returns(Err(Error("ForbiddenNestedMap")), key_values, in_sequence)
       ELSE /\ in_map' = TRUE
            /\ stack' = Append(stack, MapFrame(arg))
            /\ pc' = "visit_map"
            /\ arg' = NoType
            /\ UNCHANGED <<input, target, key_values, in_sequence, ret>>

\* in_map after visitor.visit_map(&mut self) returned res
in_map_after(res, flag) == IF IsOk(res) THEN FALSE ELSE flag

\* visitor.visit_map(&mut self)? returned
deserialize_map_return ==
    /\ pc = "return"
    /\ TopIs("deserialize_map")
    /\ in_map' = in_map_after(ret, in_map)
    /\ stack' = Popped
    /\ UNCHANGED <<input, target, key_values, in_sequence, pc, arg, ret>>

\* The struct visitor asks for the next key.  None ends the loop and the visitor
\* builds the struct; otherwise the key is resolved by deserialize_identifier and
\* the visitor rejects a field it has already read.
next_key_seed ==
    /\ pc = "visit_map"
    /\ DerivedVisitor("deserialize_map")
    /\ IF DOMAIN key_values = {}
       THEN /\ ret' = FinishStruct(Top.ty, Top.got)
            /\ pc' = "return"
            /\ UNCHANGED stack
       ELSE LET key == current_key(key_values) IN
            IF IsErr(key)
            THEN /\ ret' = key
                 /\ pc' = "return"
                 /\ UNCHANGED stack
            ELSE LET field == ResolveField(Top.ty, key.val) IN
                 IF ~field.ignore /\ field.name \in DOMAIN Top.got
                 THEN /\ ret' = Err(custom("duplicate field"))
                      /\ pc' = "return"
                      /\ UNCHANGED stack
                 ELSE /\ stack' = [stack EXCEPT ![Len(stack)].field = field]
                      /\ pc' = "visit_value"
                      /\ UNCHANGED ret
    /\ UNCHANGED <<input, target, key_values, in_map, in_sequence, arg>>

\* seed.deserialize(&mut **self) for the resolved field's type (IgnoredAny for a
\* key that is no declared field)
next_value_seed ==
    /\ pc = "visit_value"
    /\ DerivedVisitor("deserialize_map")
    /\ stack' = Append(stack, ValueFrame)
    /\ pc' = "call"
    /\ arg' = IF Top.field.ignore THEN IgnoredAnyT ELSE Top.ty.fields[Top.field.name]
    /\ UNCHANGED <<input, target, key_values, in_map, in_sequence, ret>>

\* The value came back: the visitor stores it and loops, or leaves with the error
next_value_seed_return ==
    /\ pc = "return"
    /\ TopIs("next_value_seed")
    /\ stack[Len(stack) - 1].ty.kind = "struct"
    /\ LET below == stack[Len(stack) - 1]
           stored == IF below.field.ignore THEN below.got
                     ELSE [f \in DOMAIN below.got \cup {below.field.name} |->
                             IF f = below.field.name THEN ret.val ELSE below.got[f]]
       IN  IF IsOk(ret)
           THEN /\ stack' = [Popped EXCEPT ![Len(stack) - 1].got = stored]
                /\ pc' = "visit_map"
                /\ ret' = NoRet
           ELSE /\ stack' = Popped
                /\ UNCHANGED <<pc, ret>>
    /\ UNCHANGED <<input, target, key_values, in_map, in_sequence, arg>>

-----------------------------------------------------------------------------
(* deserialize_seq and SeqAccess *)

\* Mutant of deserialize_seq: the in_sequence guard is missing
deserialize_seq_unguarded ==
    /\ CallsSeq
    /\ in_sequence' = TRUE
    /\ stack' = Append(stack, SeqFrame(arg, current_key(key_values)))
    /\ pc' = "visit_seq"
    /\ arg' = NoType
    /\ UNCHANGED <<input, target, key_values, in_map, ret>>

deserialize_seq ==
    /\ CallsSeq
    /\ IF in_sequence
       THEN Returns(Err(Error("ForbiddenNestedSequence")), key_values, in_sequence)
       ELSE /\ in_sequence' = TRUE
            /\ stack' = Append(stack, SeqFrame(arg, current_key(key_values)))
            /\ pc' = "visit_seq"
            /\ arg' = NoType
            /\ UNCHANGED <<input, target, key_values, in_map, ret>>

\* Mutant of deserialize_seq_return: the flag is not looked at after visit_seq
deserialize_seq_return_unchecked ==
    /\ pc = "return"
    /\ TopIs("deserialize_seq")
    /\ stack' = Popped
    /\ UNCHANGED <<input, target, key_values, in_map, in_sequence, pc, arg, ret>>

\* visitor.visit_seq(&mut self)? returned
deserialize_seq_return ==
    /\ pc = "return"
    /\ TopIs("deserialize_seq")
    /\ stack' = Popped
    /\ ret' = IF IsErr(ret) THEN ret
              ELSE IF in_sequence THEN Err(Error("SequenceNotConsumed"))
              ELSE ret
    /\ UNCHANGED <<input, target, key_values, in_map, in_sequence, pc, arg>>

\* Vec's visitor asks for the next element; on None it returns what it collected
next_element_seed ==
    /\ pc = "visit_seq"
    /\ DerivedVisitor("deserialize_seq")
    /\ Len(Top.acc) < MaxElems
    /\ IF ~in_sequence
       THEN /\ ret' = Ok(SeqV(Top.acc))
            /\ pc' = "return"
            /\ UNCHANGED <<stack, arg>>
       ELSE /\ stack' = Append(stack, ElementFrame)
            /\ pc' = "call"
            /\ arg' = Top.ty.elem
            /\ UNCHANGED ret
    /\ UNCHANGED <<input, target, key_values, in_map, in_sequence>>

\* The element came back: Vec's visitor pushes it and loops, or leaves with the error
next_element_seed_return ==
    /\ pc = "return"
    /\ TopIs("next_element_seed")
    /\ stack[Len(stack) - 1].ty.kind = "seq"
    /\ IF IsOk(ret)
       THEN /\ stack' = [Popped EXCEPT ![Len(stack) - 1].acc = Append(@, ret.val)]
            /\ pc' = "visit_seq"
            /\ ret' = NoRet
       ELSE /\ stack' = Popped
            /\ UNCHANGED <<pc, ret>>
    /\ UNCHANGED <<input, target, key_values, in_map, in_sequence, arg>>

-----------------------------------------------------------------------------
(* from_key_values: T::deserialize(&mut deserializer)? returned *)

\* Mutant of from_key_values: the final emptiness check is missing
from_key_values_unchecked ==
    /\ pc = "return"
    /\ stack = <<>>
    /\ pc' = "done"
    /\ UNCHANGED <<input, target, key_values, in_map, in_sequence, stack, arg, ret>>

from_key_values ==
    /\ pc = "return"
    /\ stack = <<>>
    /\ pc' = "done"
    /\ ret' = IF IsErr(ret) THEN ret
              ELSE IF DOMAIN key_values = {} THEN ret
              ELSE Err(Error("TrailingValues"))
    /\ UNCHANGED <<input, target, key_values, in_map, in_sequence, stack, arg>>

Next ==
    \/ deserialize_string
    \/ deserialize_ignored_any
    \/ deserialize_u8
    \/ deserialize_enum
    \/ deserialize_unit
    \/ deserialize_option
    \/ deserialize_option_return
    \/ deserialize_map
    \/ deserialize_map_return
    \/ next_key_seed
    \/ next_value_seed
    \/ next_value_seed_return
    \/ deserialize_seq
    \/ deserialize_seq_return
    \/ next_element_seed
    \/ next_element_seed_return
    \/ from_key_values

Spec == Init /\ [][Next]_vars

-----------------------------------------------------------------------------
(* Hand-written Deserialize impls and visitors.  The engine's handlers are  *)
(* public trait methods: a Deserialize impl may request any shape, and a    *)
(* visitor may call MapAccess / SeqAccess in any order, stop early, and go  *)
(* on after an error was returned to it.                                    *)

KeyFrame == [h |-> "next_key_seed"]

\* What a hand-written Deserialize impl may ask the engine for
Requests == {
    StringT, U8T, IgnoredAnyT, UnitT, IdentifierT, EnumNewtype,
    OptionT(CustomT), CustomSeqT, CustomMapT,
    SeqT(StringT),
    StructT(Str_a :> SeqT(U8T) @@ Str_b :> OptionT(StringT))
}

\* What a hand-written visitor may return of its own
VisitorResults == {Ok(CustomV), Err(custom("visitor"))}

\* A hand-written Deserialize impl picks the handler it calls
custom_deserialize ==
    /\ Calls("custom")
    /\ Len(stack) < MaxDepth
    /\ arg' \in Requests
    /\ UNCHANGED <<input, target, key_values, in_map, in_sequence, stack, pc, ret>>

\* Mutant of deserialize_identifier: the key is returned and a value is taken
deserialize_identifier_popping ==
    /\ Calls("identifier")
    /\ LET key   == current_key(key_values)
           value == next_unit(key_values, in_sequence)
       IN  Returns(IF IsErr(key) THEN key ELSE Ok(StringV(key.val)),
                   value.kv, value.in_sequence)

deserialize_identifier ==
    /\ Calls("identifier")
    /\ LET key == current_key(key_values) IN
       Returns(IF IsErr(key) THEN key ELSE Ok(StringV(key.val)), key_values, in_sequence)

CustomVisitor(h) == TopIs(h) /\ Top.ty.kind \in {"map", "custom_seq"}

\* MapAccess::next_key_seed called by a hand-written visitor
next_key_seed_custom ==
    /\ pc = "visit_map"
    /\ CustomVisitor("deserialize_map")
    /\ IF DOMAIN key_values = {}
       THEN /\ ret' = Ok(NoneV)
            /\ UNCHANGED <<stack, pc, arg>>
       ELSE /\ stack' = Append(stack, KeyFrame)
            /\ pc' = "call"
            /\ arg' \in {IdentifierT, CustomT}
            /\ UNCHANGED ret
    /\ UNCHANGED <<input, target, key_values, in_map, in_sequence>>

\* MapAccess::next_value_seed called by a hand-written visitor
next_value_seed_custom ==
    /\ pc = "visit_map"
    /\ CustomVisitor("deserialize_map")
    /\ stack' = Append(stack, ValueFrame)
    /\ pc' = "call"
    /\ arg' = CustomT
    /\ UNCHANGED <<input, target, key_values, in_map, in_sequence, ret>>

\* seed.deserialize(&mut **self) returned to next_key_seed / next_value_seed,
\* which hands the Result on to the hand-written visitor
map_access_return_custom ==
    /\ pc = "return"
    /\ TopIs("next_key_seed") \/ TopIs("next_value_seed")
    /\ stack[Len(stack) - 1].ty.kind = "map"
    /\ stack' = Popped
    /\ pc' = "visit_map"
    /\ UNCHANGED <<input, target, key_values, in_map, in_sequence, arg, ret>>

\* The hand-written visitor leaves visit_map: with a value, with an error of its
\* own, or with the error that was last returned to it
visit_map_custom_return ==
    /\ pc = "visit_map"
    /\ CustomVisitor("deserialize_map")
    /\ pc' = "return"
    /\ ret' \in VisitorResults \cup (IF IsErr(ret) THEN {ret} ELSE {})
    /\ UNCHANGED <<input, target, key_values, in_map, in_sequence, stack, arg>>

\* SeqAccess::next_element_seed called by a hand-written visitor
next_element_seed_custom ==
    /\ pc = "visit_seq"
    /\ CustomVisitor("deserialize_seq")
    /\ IF ~in_sequence
       THEN /\ ret' = Ok(NoneV)
            /\ UNCHANGED <<stack, pc, arg>>
       ELSE /\ stack' = Append(stack, ElementFrame)
            /\ pc' = "call"
            /\ arg' = CustomT
            /\ UNCHANGED ret
    /\ UNCHANGED <<input, target, key_values, in_map, in_sequence>>

seq_access_return_custom ==
    /\ pc = "return"
    /\ TopIs("next_element_seed")
    /\ stack[Len(stack) - 1].ty.kind = "custom_seq"
    /\ stack' = Popped
    /\ pc' = "visit_seq"
    /\ UNCHANGED <<input, target, key_values, in_map, in_sequence, arg, ret>>

visit_seq_custom_return ==
    /\ pc = "visit_seq"
    /\ CustomVisitor("deserialize_seq")
    /\ pc' = "return"
    /\ ret' \in VisitorResults \cup (IF IsErr(ret) THEN {ret} ELSE {})
    /\ UNCHANGED <<input, target, key_values, in_map, in_sequence, stack, arg>>

\* The inputs followed under hand-written visitors: a repeated key and a single one
CustomPairs == {<<Str_a, Str_12>>, <<Str_a, Str_a>>, <<Str_b, Str_b>>}

InitCustom ==
    /\ input \in UNION {[1..n -> CustomPairs] : n \in 0..MaxPairs}
    /\ target = CustomT
    /\ key_values = from_key_values_store(EmptyMap, input)
    /\ in_map = FALSE
    /\ in_sequence = FALSE
    /\ stack = <<>>
    /\ pc = "call"
    /\ arg = target
    /\ ret = NoRet

NextCustom ==
    \/ Next
    \/ custom_deserialize
    \/ deserialize_identifier
    \/ next_key_seed_custom
    \/ next_value_seed_custom
    \/ map_access_return_custom
    \/ visit_map_custom_return
    \/ next_element_seed_custom
    \/ seq_access_return_custom
    \/ visit_seq_custom_return

\* from_key_values::<T> for a T with hand-written Deserialize impls and visitors
SpecCustom == InitCustom /\ [][NextCustom]_vars

-----------------------------------------------------------------------------
(* What the input says, read off the pairs themselves *)

InputKeys == {input[i][1] : i \in DOMAIN input}

\* The values given for key k, in arrival order
ValuesOf(k) ==
    LET HasKey(p) == p[1] = k
        sel == SelectSeq(input, HasKey)
    IN  [i \in 1..Len(sel) |-> sel[i][2]]

\* Values still in the store
StoredValues(kv) ==
    LET RECURSIVE Sum(_)
        Sum(ks) == IF ks = {} THEN 0
                   ELSE LET k == CHOOSE x \in ks : TRUE IN Len(kv[k]) + Sum(ks \ {k})
    IN  Sum(DOMAIN kv)

ScalarKind(ty) == ty.kind \in {"string", "u8", "enum"}

\* What one value decodes to as a string, a scalar or a unit enum
DecodeOne(ty, s) ==
    CASE ty.kind = "string" -> Ok(StringV(s))
      [] ty.kind = "u8"     -> parse_u8(s)
      [] ty.kind = "enum"   -> visit_enum(ty.variants, s)

AllDecode(ty, vs) == \A i \in 1..Len(vs) : IsOk(DecodeOne(ty, vs[i]))

DecodedSeq(ty, vs) == SeqV([i \in 1..Len(vs) |-> DecodeOne(ty, vs[i]).val])

FirstFailure(ty, vs) ==
    LET bad == {i \in 1..Len(vs) : IsErr(DecodeOne(ty, vs[i]))}
    IN  DecodeOne(ty, vs[CHOOSE i \in bad : \A j \in bad : i <= j])

\* The struct visitor of the target has just been handed the value of field k
FieldValueReturned(k) ==
    /\ pc = "return"
    /\ Len(stack) = 2
    /\ TopIs("next_value_seed")
    /\ stack[1].field = KnownField(k)

SeqFields == IF target.kind # "struct" THEN {}
             ELSE {k \in DOMAIN target.fields :
                     target.fields[k].kind = "seq" /\ ScalarKind(target.fields[k].elem)}

-----------------------------------------------------------------------------
(* C1: a key given N >= 1 times and bound to a sequence field (elements     *)
(* string, scalar or unit enum) decodes to a sequence of exactly N          *)
(* elements, the i-th decoded from the i-th value given for that key in     *)
(* arrival order, however the pairs of other keys are interleaved: the      *)
(* value handed to the struct visitor for the field is that sequence (or    *)
(* the error of the first element that does not decode), and so is the      *)
(* field of every record from_key_values returns.                           *)
C1_SequenceInArrivalOrder ==
    \A k \in SeqFields :
        LET elem == target.fields[k].elem
            vs   == ValuesOf(k)
        IN  Len(vs) >= 1 =>
              /\ FieldValueReturned(k) =>
                   ret = IF AllDecode(elem, vs) THEN Ok(DecodedSeq(elem, vs))
                         ELSE FirstFailure(elem, vs)
              /\ (pc = "done" /\ IsOk(ret)) =>
                   /\ ret.val.v[k] = DecodedSeq(elem, vs)
                   /\ Len(ret.val.v[k].v) = Len(vs)

C1_Witness ==
    /\ pc = "done"
    /\ IsOk(ret)
    /\ Len(input) = 3
    /\ \E k \in SeqFields :
          /\ input[1][1] = k
          /\ input[2][1] # k
          /\ input[3][1] = k
          /\ input[1][2] # input[3][2]
          /\ ret.val.v[k].v = <<DecodeOne(target.fields[k].elem, input[1][2]).val,
                                DecodeOne(target.fields[k].elem, input[3][2]).val>>

-----------------------------------------------------------------------------
(* Reading a record off the input *)

Fields == IF target.kind = "struct" THEN DOMAIN target.fields ELSE {}

\* The number a decimal literal denotes, digit by digit from the right
DecimalValue(s) ==
    LET RECURSIVE Pow10(_)
        Pow10(n) == IF n = 0 THEN 1 ELSE 10 * Pow10(n - 1)
        RECURSIVE Sum(_)
        Sum(i) == IF i = 0 THEN 0
                  ELSE DigitValue(s[i]) * Pow10(Len(s) - i) + Sum(i - 1)
    IN  Sum(Len(s))

\* A decimal literal of a u8: digits only, at least one, at most 255
IsU8Literal(s) ==
    /\ s # <<>>
    /\ \A i \in 1..Len(s) : IsDigit(s[i])
    /\ DecimalValue(s) <= 255

\* The value a string or scalar field must hold for the literal s
Literal(ty, s) == IF ty.kind = "string" THEN StringV(s) ELSE U8V(DecimalValue(s))

IsLiteral(ty, s) == ty.kind = "string" \/ IsU8Literal(s)

SingleFields == {k \in Fields : target.fields[k].kind \in {"string", "u8"}}

\* Every key of the input is a declared field, given once when the field is a
\* string or a scalar and any number of times when it is a sequence of them;
\* every field that is not optional is given.
SingleValuedInput ==
    /\ target.kind = "struct"
    /\ \A k \in InputKeys :
          \/ k \in SingleFields /\ Len(ValuesOf(k)) = 1
          \/ k \in SeqFields
    /\ \A f \in Fields : target.fields[f].kind # "option" => f \in InputKeys

AllLiterals ==
    /\ \A k \in InputKeys \cap SingleFields : IsLiteral(target.fields[k], ValuesOf(k)[1])
    /\ \A k \in InputKeys \cap SeqFields : AllDecode(target.fields[k].elem, ValuesOf(k))

RoundTrips ==
    /\ IsOk(ret)
    /\ \A k \in InputKeys \cap SingleFields :
          ret.val.v[k] = Literal(target.fields[k], ValuesOf(k)[1])

\* C2 as stated, read with every required field of the record given: each key
\* given once for a string or scalar field (sequence fields on repeated keys
\* allowed beside them) makes from_key_values succeed with exactly the values.
C2_Original == SingleValuedInput => (pc = "done" => RoundTrips)

(* C2, amended: for every input in which each key of a string or scalar     *)
(* field occurs exactly once, every key is a declared field, every field    *)
(* that is not optional is given and every value is a literal of its        *)
(* field's type, from_key_values succeeds and each such field holds exactly *)
(* the value given for its key (the string itself, or the number the        *)
(* literal denotes), also beside sequence fields on repeated keys; a value  *)
(* that is no literal of its scalar field's type makes the decode fail with *)
(* the parse error (a Message).                                             *)
C2_RoundTrip ==
    (SingleValuedInput /\ pc = "done") =>
        IF AllLiterals THEN RoundTrips ELSE Fails(ret, "Message")

C2_Witness ==
    /\ SingleValuedInput
    /\ AllLiterals
    /\ pc = "done"
    /\ IsOk(ret)
    /\ \E k \in InputKeys \cap SingleFields, j \in InputKeys \cap SingleFields :
          /\ target.fields[k].kind = "u8"
          /\ ValuesOf(k) = <<Str_12>>
          /\ ret.val.v[k] = U8V(12)
          /\ target.fields[j].kind = "string"
          /\ ret.val.v[j] = StringV(ValuesOf(j)[1])

-----------------------------------------------------------------------------
(* Which keys a record traversal gets to *)

\* Decoding the values of key k against its field succeeds (a key that is no
\* declared field is skipped value by value; a key given twice for a field that
\* is no sequence is a duplicate field)
KeyDecodes(k) ==
    IF k \notin Fields THEN TRUE
    ELSE LET ty == target.fields[k]
             vs == ValuesOf(k)
         IN  CASE ScalarKind(ty)      -> Len(vs) = 1 /\ IsOk(DecodeOne(ty, vs[1]))
               [] ty.kind = "seq"     -> ScalarKind(ty.elem) /\ AllDecode(ty.elem, vs)
               [] ty.kind = "option"  -> /\ ScalarKind(ty.inner)
                                         /\ Len(vs) = 1
                                         /\ IsOk(DecodeOne(ty.inner, vs[1]))
               [] OTHER               -> FALSE

\* The traversal asks for the value of field f: its key is given and every
\* smaller key of the input decodes
Reached(f) ==
    /\ f \in InputKeys
    /\ \A k \in InputKeys : StrLess(k, f) => KeyDecodes(k)

IsRecord(ty) == ty.kind = "struct"

NestedFields ==
    {f \in Fields : \/ IsRecord(target.fields[f])
                    \/ target.fields[f].kind = "seq" /\ IsRecord(target.fields[f].elem)}

\* C3 as stated: a record with a record-typed field (directly or as the element
\* type of a sequence field) fails with ForbiddenNestedMap over any input.
C3_Original ==
    NestedFields # {} => (pc = "done" => Fails(ret, "ForbiddenNestedMap"))

(* C3, amended: decoding a target record that has a record-typed field      *)
(* (directly or as the element type of a sequence field) fails with         *)
(* ForbiddenNestedMap exactly when the traversal reaches that field: the    *)
(* input contains the field's key and every smaller key of the input        *)
(* decodes.  Over the empty input and over inputs without the field's key   *)
(* the result is not ForbiddenNestedMap: the field is never requested and   *)
(* the decode fails with the framework's missing-field error (a Message).   *)
C3_NestedMapWhenReached ==
    (NestedFields # {} /\ pc = "done") =>
        /\ IsErr(ret)
        /\ Fails(ret, "ForbiddenNestedMap") <=> \E f \in NestedFields : Reached(f)
        /\ NestedFields \cap InputKeys = {} => Fails(ret, "Message")

C3_Witness ==
    /\ pc = "done"
    /\ Fails(ret, "ForbiddenNestedMap")
    /\ \E f \in NestedFields :
          /\ Reached(f)
          /\ target.fields[f].kind = "seq"
          /\ Len(input) > 1

-----------------------------------------------------------------------------
SeqOfSeqFields ==
    {f \in Fields : /\ target.fields[f].kind = "seq"
                    /\ target.fields[f].elem.kind = "seq"}

(* C4: a deserialize_seq request made while in_sequence is set returns      *)
(* ForbiddenNestedSequence and consumes no value (store, flags and stack    *)
(* are left as they were); so a record with a sequence-of-sequence field    *)
(* whose traversal reaches that field fails with ForbiddenNestedSequence.   *)
C4_NestedSequence ==
    [][ /\ (Calls("seq") /\ in_sequence) =>
             /\ ret' = Err(Error("ForbiddenNestedSequence"))
             /\ pc' = "return"
             /\ key_values' = key_values
             /\ UNCHANGED <<in_map, in_sequence, stack>>
        /\ (pc' = "done" /\ \E f \in SeqOfSeqFields : Reached(f)) =>
             /\ Fails(ret', "ForbiddenNestedSequence")
             /\ \E f \in SeqOfSeqFields :
                   f \in DOMAIN key_values' /\ key_values'[f] = ValuesOf(f)
      ]_vars

C4_Witness ==
    /\ pc = "return"
    /\ TopIs("next_element_seed")
    /\ ret = Err(Error("ForbiddenNestedSequence"))
    /\ in_sequence
    /\ \E f \in SeqOfSeqFields : ValuesOf(f) = key_values[f] /\ Len(ValuesOf(f)) = 2

-----------------------------------------------------------------------------
\* Every declared key of the input decodes and every field that is not optional
\* is given: nothing but an undeclared key can make the decode fail
OtherwiseDecodable ==
    /\ \A k \in InputKeys \cap Fields : KeyDecodes(k)
    /\ \A f \in Fields : target.fields[f].kind # "option" => f \in InputKeys

\* C5: any input that contains a key that is no declared field of the target
\* record makes from_key_values fail with TrailingValues (stated for the inputs
\* in which the undeclared key is the only possible fault).
C5_UnknownKeyIsTrailing ==
    (target.kind = "struct" /\ InputKeys \ Fields # {} /\ OtherwiseDecodable) =>
        (pc = "done" => Fails(ret, "TrailingValues"))

-----------------------------------------------------------------------------
(* C6: from_key_values returns Ok only if the store is empty when the       *)
(* target has been built; when T::deserialize succeeded and a key remains   *)
(* the result is TrailingValues; and no other step of a decode produces     *)
(* TrailingValues.                                                          *)
C6_TrailingValuesOnlyAtEnd ==
    [][ /\ (pc = "return" /\ stack = <<>>) =>
             /\ pc' = "done"
             /\ IsOk(ret') <=> (IsOk(ret) /\ DOMAIN key_values = {})
             /\ IsOk(ret') => ret' = ret
             /\ (IsOk(ret) /\ DOMAIN key_values # {}) =>
                   ret' = Err(Error("TrailingValues"))
             /\ IsErr(ret) => ret' = ret
        /\ Fails(ret', "TrailingValues") =>
             /\ pc = "return" /\ stack = <<>>
             /\ IsOk(ret)
             /\ DOMAIN key_values # {}
        /\ (pc' = "done" /\ IsOk(ret')) => DOMAIN key_values' = {}
      ]_vars

C6_Witness ==
    /\ pc = "done"
    /\ Fails(ret, "TrailingValues")
    /\ DOMAIN key_values # {}
    /\ StoredValues(key_values) < Len(input)

-----------------------------------------------------------------------------
OptionFields == {f \in Fields : target.fields[f].kind = "option"}

(* C7: deserialize_option fails with ForbiddenTopLevelOption exactly when   *)
(* in_map is not set, and then touches nothing; when in_map is set it       *)
(* consumes nothing and hands the inner type the same current key, which is *)
(* the key of the field being read and a key of the input.  So an optional  *)
(* field whose key is in the input is Some of that key's value, and one     *)
(* whose key is absent is never requested and is None.                      *)
C7_Option ==
    [][ /\ Calls("option") =>
             IF ~in_map
             THEN /\ ret' = Err(Error("ForbiddenTopLevelOption"))
                  /\ pc' = "return"
                  /\ UNCHANGED <<key_values, in_map, in_sequence, stack>>
             ELSE /\ pc' = "call"
                  /\ arg' = arg.inner
                  /\ UNCHANGED <<key_values, in_map, in_sequence>>
                  /\ TopIs("next_value_seed")
                  /\ current_key(key_values) = Ok(stack[Len(stack) - 1].field.name)
                  /\ stack[Len(stack) - 1].field.name \in InputKeys
        /\ (pc' = "done" /\ IsOk(ret')) =>
             \A f \in OptionFields :
                 ret'.val.v[f] =
                     IF f \in InputKeys
                     THEN SomeV(DecodeOne(target.fields[f].inner, ValuesOf(f)[1]).val)
                     ELSE NoneV
      ]_vars

C7_Witness ==
    /\ pc = "done"
    /\ IsOk(ret)
    /\ \E f \in OptionFields, g \in OptionFields :
          /\ f \in InputKeys
          /\ ret.val.v[f] = SomeV(StringV(ValuesOf(f)[1]))
          /\ g \notin InputKeys
          /\ ret.val.v[g] = NoneV

-----------------------------------------------------------------------------
(* C8: deserialize_enum pops exactly one value, the front value of the      *)
(* current key's queue, and selects the variant by that value's text, not   *)
(* by the key; the variant is accepted only when it is a unit variant, and  *)
(* a newtype, tuple or struct variant fails with ExpectedUnitVariant.       *)
C8_Enum ==
    [][ (Calls("enum") /\ DOMAIN key_values # {}) =>
          LET k == FirstKey(key_values)
              v == Head(key_values[k])
          IN  /\ StoredValues(key_values') = StoredValues(key_values) - 1
              /\ \A x \in DOMAIN key_values \ {k} :
                    x \in DOMAIN key_values' /\ key_values'[x] = key_values[x]
              /\ IF Len(key_values[k]) = 1 THEN k \notin DOMAIN key_values'
                 ELSE key_values'[k] = Tail(key_values[k])
              /\ pc' = "return"
              /\ ret' = IF v \notin DOMAIN arg.variants THEN Err(custom("unknown variant"))
                        ELSE IF arg.variants[v] = "unit" THEN Ok(VariantV(v))
                        ELSE Err(Error("ExpectedUnitVariant"))
      ]_vars

C8_Witness ==
    /\ pc = "return"
    /\ Len(stack) = 2
    /\ TopIs("next_value_seed")
    /\ stack[1].field = KnownField(Str_ab)
    /\ stack[1].ty.fields[Str_ab] = EnumNewtype
    /\ ret = Ok(VariantV(Str_a))
    /\ ValuesOf(Str_ab) = <<Str_a>>

-----------------------------------------------------------------------------
(* C9: in every reachable state of a decode, after any sequence of engine  *)
(* operations (successful or failing, in whatever order a visitor issues    *)
(* them), every key present in the store maps to a non-empty queue: a pop   *)
(* that empties a queue removes its key in the same next_unit step.         *)
C9_NoEmptyQueue == \A k \in DOMAIN key_values : key_values[k] # <<>>

\* A key's queue was emptied and the key removed, another key is left, and the
\* visitor goes on after an error was returned to it
C9_Witness ==
    /\ \E k \in InputKeys : k \notin DOMAIN key_values /\ Len(ValuesOf(k)) = 2
    /\ DOMAIN key_values # {}
    /\ pc = "visit_map"
    /\ IsErr(ret)

-----------------------------------------------------------------------------
\* C10: in_map is cleared on every return from a deserialize_map that had set
\* it, also when the visitor's traversal returned an error.
C10_FlagClearedOnEveryReturn ==
    [][ (pc = "return" /\ TopIs("deserialize_map")) => in_map' = FALSE ]_vars

-----------------------------------------------------------------------------
(* Traversals in progress *)

\* The number of activations of handler h that have not returned yet
Depth(h) == Cardinality({i \in DOMAIN stack : stack[i].h = h})

\* C11: at every point of a decode at most one record traversal and at most one
\* sequence traversal is in progress, and a deserialize_seq / deserialize_map
\* request made while a traversal of its kind is in progress is refused with
\* ForbiddenNestedSequence / ForbiddenNestedMap.
C11_SingleDepth ==
    /\ Depth("deserialize_map") <= 1
    /\ Depth("deserialize_seq") <= 1
    /\ (CallsSeq /\ Depth("deserialize_seq") = 1) => in_sequence
    /\ (CallsMap /\ Depth("deserialize_map") = 1) => in_map

-----------------------------------------------------------------------------
\* The step takes a value out of the store
Pops == StoredValues(key_values') < StoredValues(key_values)

\* C12: a sequence decode consumes values of exactly one key.  Between a
\* deserialize_seq and its return every value popped comes from the key that was
\* current when the deserialize_seq began, and once that key has left the store
\* next_element_seed returns None (in_sequence is clear).
C12_OneKeyPerSequence ==
    [][ /\ Pops =>
             \A i \in DOMAIN stack :
                 stack[i].h = "deserialize_seq" =>
                     stack[i].start = Ok(FirstKey(key_values))
        /\ (/\ pc = "visit_seq"
            /\ TopIs("deserialize_seq")
            /\ IsOk(Top.start)
            /\ Top.start.val \notin DOMAIN key_values) => ~in_sequence
      ]_vars

-----------------------------------------------------------------------------
(* C13: when the sequence visitor returns Ok while in_sequence is still set *)
(* (it stopped before the current key's queue was emptied), deserialize_seq *)
(* fails with SequenceNotConsumed; so whenever deserialize_seq returns Ok,  *)
(* in_sequence is false and the key that was current when it began is no    *)
(* longer in the store.  An error of the visitor is passed on as it is.     *)
C13_SequenceNotConsumed ==
    [][ (pc = "return" /\ TopIs("deserialize_seq")) =>
          /\ (IsOk(ret) /\ in_sequence) => ret' = Err(Error("SequenceNotConsumed"))
          /\ IsErr(ret) => ret' = ret
          /\ IsOk(ret') =>
               /\ ret' = ret
               /\ ~in_sequence'
               /\ IsOk(Top.start)
               /\ Top.start.val \notin DOMAIN key_values'
      ]_vars

\* A hand-written visitor took one of a key's two values and returned Ok
C13_Witness ==
    /\ pc = "return"
    /\ ret = Err(Error("SequenceNotConsumed"))
    /\ in_sequence
    /\ \E k \in DOMAIN key_values :
          Len(ValuesOf(k)) = 2 /\ Len(key_values[k]) = 1

-----------------------------------------------------------------------------
\* k is a key of the store and no key of the store is smaller
Smallest(kv, k) == k \in DOMAIN kv /\ \A x \in DOMAIN kv : ~StrLess(x, k)

(* C14: the store built from the input pairs holds, for each distinct key,  *)
(* exactly the values given for that key in arrival order, as many values   *)
(* in all as there are pairs; current_key is always the lexicographically   *)
(* smallest key still in the store, whatever the order in which the keys    *)
(* arrived, and MissingKey on an empty store; the field a record traversal  *)
(* reads next is the one that smallest key names.                           *)
C14_StoreAndCurrentKey ==
    /\ (pc = "call" /\ stack = <<>>) =>
          /\ DOMAIN key_values = InputKeys
          /\ \A k \in InputKeys : key_values[k] = ValuesOf(k)
          /\ StoredValues(key_values) = Len(input)
    /\ IF DOMAIN key_values = {}
       THEN current_key(key_values) = Err(Error("MissingKey"))
       ELSE /\ IsOk(current_key(key_values))
            /\ Smallest(key_values, current_key(key_values).val)
    /\ (pc = "visit_value" /\ DerivedVisitor("deserialize_map")) =>
          \E k \in DOMAIN key_values :
              Smallest(key_values, k) /\ Top.field = ResolveField(Top.ty, k)

\* The largest key arrived first and twice, and the traversal starts at the smallest
C14_Witness ==
    /\ pc = "visit_value"
    /\ DerivedVisitor("deserialize_map")
    /\ Len(input) = 3
    /\ input[1][1] = Str_b /\ input[2][1] = Str_a /\ input[3][1] = Str_b
    /\ input[1][2] # input[3][2]
    /\ key_values = (Str_a :> <<input[2][2]>> @@ Str_b :> <<input[1][2], input[3][2]>>)
    /\ Top.field = KnownField(Str_a)

-----------------------------------------------------------------------------
\* The visitor of the record in progress asks MapAccess for the next key
AsksNextKey == pc = "visit_map" /\ TopIs("deserialize_map")

(* C15: next_key_seed returns None exactly when the store is empty (a       *)
(* derived struct visitor then finishes the record; a hand-written visitor  *)
(* is handed None), and otherwise yields the current key: the key seed is   *)
(* run, and the identifier it is given by deserialize_identifier is the     *)
(* smallest key of the store (the field a derived visitor resolves is that  *)
(* key's).  Producing an identifier leaves the store and both flags as they *)
(* were.                                                                    *)
C15_NextKey ==
    [][ /\ (AsksNextKey /\ Top.ty.kind = "struct") =>
             /\ UNCHANGED <<key_values, in_map, in_sequence>>
             /\ IF DOMAIN key_values = {}
                THEN pc' = "return" /\ ret' = FinishStruct(Top.ty, Top.got)
                ELSE \/ /\ pc' = "visit_value"
                        /\ stack'[Len(stack)].field = ResolveField(Top.ty, FirstKey(key_values))
                     \/ /\ pc' = "return"
                        /\ ret' = Err(custom("duplicate field"))
                        /\ FirstKey(key_values) \in DOMAIN Top.got
        /\ (AsksNextKey /\ Top.ty.kind = "map") =>
             /\ UNCHANGED <<key_values, in_map, in_sequence>>
             /\ stack' = Append(stack, KeyFrame) => DOMAIN key_values # {}
             /\ (pc' = "visit_map" /\ stack' = stack) =>
                   DOMAIN key_values = {} /\ ret' = Ok(NoneV)
        /\ Calls("identifier") =>
             /\ UNCHANGED <<key_values, in_map, in_sequence, stack>>
             /\ pc' = "return"
             /\ ret' = IF DOMAIN key_values = {} THEN Err(Error("MissingKey"))
                       ELSE Ok(StringV(FirstKey(key_values)))
             /\ IsOk(ret') => Smallest(key_values, ret'.val.v)
      ]_vars

\* A key seed of a hand-written visitor was handed the smallest key left, after
\* another key had been used up
C15_Witness ==
    /\ pc = "return"
    /\ TopIs("next_key_seed")
    /\ ret = Ok(StringV(Str_b))
    /\ Str_a \in InputKeys
    /\ Str_b \in DOMAIN key_values
    /\ key_values[Str_b] = ValuesOf(Str_b)

-----------------------------------------------------------------------------
\* The requests that take one value with next_unit
TakesValue == pc = "call" /\ arg.kind \in {"string", "u8", "enum", "ignored_any", "unit"}

(* C16: the current key changes only in a step that takes a value with      *)
(* next_unit and so empties the current key's queue; a string, scalar or    *)
(* enum read from a key that has further values leaves that key current,    *)
(* with the rest of its queue; and when a field's value has been decoded    *)
(* and its key still has values, that key is still the current key, so the  *)
(* next identifier a record visitor is given is the same key again.         *)
C16_CursorAdvance ==
    [][ /\ current_key(key_values') # current_key(key_values) =>
             /\ TakesValue
             /\ StoredValues(key_values') = StoredValues(key_values) - 1
             /\ Len(key_values[FirstKey(key_values)]) = 1
             /\ key_values' = remove(key_values, FirstKey(key_values))
        /\ (/\ TakesValue
            /\ DOMAIN key_values # {}
            /\ Len(key_values[FirstKey(key_values)]) > 1) =>
             /\ current_key(key_values') = current_key(key_values)
             /\ key_values' = [key_values EXCEPT ![FirstKey(key_values)] = Tail(@)]
        /\ (/\ pc' = "return"
            /\ stack' # <<>>
            /\ stack'[Len(stack')].h = "next_value_seed"
            /\ stack'[Len(stack') - 1].ty.kind = "struct"
            /\ IsOk(ret')
            /\ stack'[Len(stack') - 1].field.name \in DOMAIN key_values') =>
             current_key(key_values') = Ok(stack'[Len(stack') - 1].field.name)
      ]_vars

\* A key given twice for a field that is no sequence was presented a second time
C16_Witness ==
    /\ pc = "return"
    /\ TopIs("deserialize_map")
    /\ ret = Err(custom("duplicate field"))
    /\ \E k \in DOMAIN Top.got :
          /\ current_key(key_values) = Ok(k)
          /\ Len(ValuesOf(k)) = 2
          /\ key_values[k] = Tail(ValuesOf(k))

-----------------------------------------------------------------------------
(* C17: no step of any decode, whatever the order in which a visitor calls  *)
(* the handlers and whether or not it goes on after an error, returns       *)
(* RemoveKeyFailed or MissingValue: taking a value from an empty store      *)
(* fails with MissingValues and changes nothing, and taking one from a      *)
(* store that is not empty finds a value.                                   *)
C17_NoRemoveKeyFailed ==
    [][ /\ ~Fails(ret', "RemoveKeyFailed")
        /\ ~Fails(ret', "MissingValue")
        /\ (TakesValue /\ DOMAIN key_values = {}) =>
             /\ ret' = Err(Error("MissingValues"))
             /\ UNCHANGED <<key_values, in_sequence>>
        /\ (TakesValue /\ DOMAIN key_values # {}) =>
             /\ Pops
             /\ ~Fails(ret', "MissingValues")
      ]_vars

\* Every value was taken, the last pop removed the last key, and a further
\* request found the store empty
C17_Witness ==
    /\ pc = "return"
    /\ ret = Err(Error("MissingValues"))
    /\ DOMAIN key_values = {}
    /\ Len(input) = MaxPairs
    /\ Cardinality(InputKeys) = 2

-----------------------------------------------------------------------------
\* A request for a shape the engine has no handler of its own for
Unsupported == pc = "call" /\ arg.kind \in {"unit", "ignored_any"}

\* C18: a request for a shape outside the supported set (unit, ignored-any, ...)
\* is rejected by the engine: it returns an error and takes no value from the
\* store.
C18_UnsupportedRejected ==
    [][ Unsupported => (IsErr(ret') /\ key_values' = key_values) ]_vars

-----------------------------------------------------------------------------
\* The sequence traversals in progress that are run by a Vec's visitor
VecTraversals ==
    {i \in DOMAIN stack : stack[i].h = "deserialize_seq" /\ stack[i].ty.kind = "seq"}

\* C19: every decode terminates, because no step adds a value to the store, a
\* string, scalar or enum request that succeeds removes exactly one, and every
\* element a sequence traversal has been given has removed a value: the elements
\* collected so far and the values still stored are together no more than the
\* values of the input, so a traversal over n values yields at most n elements
\* before next_element_seed returns None or an error is returned.
C19_ValueConsumingSteps ==
    /\ StoredValues(key_values) <= Len(input)
    /\ (pc = "return" /\ IsOk(ret) /\ ret.val.t \in {"string", "u8", "variant"}) =>
          StoredValues(key_values) < Len(input)
    /\ \A i \in VecTraversals :
          Len(stack[i].acc) + StoredValues(key_values) <= Len(input)

-----------------------------------------------------------------------------
(* The result of a decode, read off the values given for each key *)

\* The inputs that are the input's pairs in another order, the pairs of each
\* key keeping their order
Reorderings ==
    LET n == Len(input)
        Orderings == {p \in [1..n -> 1..n] : \A i, j \in 1..n : p[i] = p[j] => i = j}
        KeepsKeyOrder(p) ==
            \A i, j \in 1..n : (i < j /\ input[p[i]][1] = input[p[j]][1]) => p[i] < p[j]
    IN  {[i \in 1..n |-> input[p[i]]] : p \in {q \in Orderings : KeepsKeyOrder(q)}}

DuplicateField == Err(custom("duplicate field"))

\* What a record traversal makes of the key of a declared field of type ty that
\* was given the values vs
FieldOutcome(ty, vs) ==
    CASE ScalarKind(ty) ->
           LET r == DecodeOne(ty, vs[1]) IN
           IF IsErr(r) THEN r ELSE IF Len(vs) > 1 THEN DuplicateField ELSE r
      [] ty.kind = "option" ->
           LET r == DecodeOne(ty.inner, vs[1]) IN
           IF IsErr(r) THEN r ELSE IF Len(vs) > 1 THEN DuplicateField ELSE Ok(SomeV(r.val))
      [] ty.kind = "seq" /\ ScalarKind(ty.elem) ->
           IF AllDecode(ty.elem, vs) THEN Ok(DecodedSeq(ty.elem, vs))
           ELSE FirstFailure(ty.elem, vs)
      [] ty.kind = "seq" /\ ty.elem.kind = "seq" -> Err(Error("ForbiddenNestedSequence"))
      [] OTHER -> Err(Error("ForbiddenNestedMap"))

\* The record target's result: the keys of the input in ascending order, the
\* values of a key that is no field skipped
RECURSIVE RecordResult(_, _)
RecordResult(keys, got) ==
    IF keys = {} THEN FinishStruct(target, got)
    ELSE LET k == CHOOSE x \in keys : \A y \in keys : x = y \/ StrLess(x, y) IN
         IF k \notin Fields THEN RecordResult(keys \ {k}, got)
         ELSE LET r == FieldOutcome(target.fields[k], ValuesOf(k)) IN
              IF IsErr(r) THEN r
              ELSE RecordResult(keys \ {k}, (k :> r.val) @@ got)

\* The result for a target that is a single string, enum, unit, Option or Vec of
\* strings: it reads the smallest key, and any value left over is trailing
SingleResult ==
    IF target.kind = "option" THEN Err(Error("ForbiddenTopLevelOption"))
    ELSE IF input = <<>> THEN Err(Error("MissingValues"))
    ELSE LET k  == CHOOSE x \in InputKeys : \A y \in InputKeys : x = y \/ StrLess(x, y)
             vs == ValuesOf(k)
         IN  IF target.kind = "seq"
             THEN IF InputKeys = {k} THEN Ok(SeqV([j \in 1..Len(vs) |-> StringV(vs[j])]))
                  ELSE Err(Error("TrailingValues"))
             ELSE LET r == IF target.kind = "unit"
                           THEN Err(custom("invalid type: string, expected unit"))
                           ELSE DecodeOne(target, vs[1])
                  IN  IF IsErr(r) THEN r
                      ELSE IF Len(input) > 1 THEN Err(Error("TrailingValues"))
                      ELSE r

ResultOf == IF target.kind = "struct" THEN RecordResult(InputKeys, EmptyMap) ELSE SingleResult

\* Targets whose result is read off above: all but a Vec of records
Flat == ~(target.kind = "seq" /\ target.elem.kind = "struct")

(* C20: the result of a decode depends only on the sequence of values given *)
(* for each key, not on how the pairs of different keys are interleaved.    *)
(* Every reordering of the input that keeps the order of the pairs of each  *)
(* key builds the same store, and the result from_key_values returns (value *)
(* or error) is the one read off the per-key value sequences with the keys  *)
(* in ascending order.                                                      *)
C20_InterleavingIrrelevant ==
    /\ (pc = "call" /\ stack = <<>>) =>
          \A other \in Reorderings : from_key_values_store(EmptyMap, other) = key_values
    /\ (pc = "done" /\ Flat) => ret = ResultOf

\* A decode that succeeded on an input in which another key arrives between the
\* two values of a key, and that has a reordering starting with the other key
C20_Witness ==
    /\ pc = "done"
    /\ IsOk(ret)
    /\ target.kind = "struct"
    /\ Len(input) = 3
    /\ input[1][1] = Str_a /\ input[2][1] = Str_b /\ input[3][1] = Str_a
    /\ input[1][2] # input[3][2]
    /\ \E other \in Reorderings : other # input /\ other[1][1] = Str_b
    /\ ret = ResultOf

-----------------------------------------------------------------------------
\* C21: the engine never produces an empty sequence.  A deserialize_seq on an
\* empty store sets in_sequence and the first next_element_seed fails (a value
\* is missing), so a sequence over the empty input is an error, and every
\* sequence a deserialize_seq returns Ok has at least one element.
C21_NoEmptySequence ==
    /\ (pc = "visit_seq" /\ TopIs("deserialize_seq") /\ input = <<>>) => in_sequence
    /\ (pc = "return" /\ TopIs("next_element_seed") /\ input = <<>>) => IsErr(ret)
    /\ (pc = "return" /\ IsOk(ret) /\ ret.val.t = "seq") => Len(ret.val.v) >= 1

=============================================================================
